---- MODULE Spec2Model ----
(***************************************************************************)
(* A model of python/neural/MultipleShootingTrajectory.py: the parameter   *)
(* store of a multiple-shooting trajectory problem, its flat encoding, the *)
(* rollout, the constraint vector g(x), the sparse Jacobian of g and the   *)
(* callbacks handed to the NLP solver.                                     *)
(*                                                                         *)
(* Conventions.  Python lists and numpy vectors are TLA+ sequences, so the *)
(* Python index k is the TLA+ index k + 1.  float64 values are integers    *)
(* (all finite values of the model are whole numbers) together with three  *)
(* reserved codes for NaN, +inf and -inf; FAdd, FSub and FMul follow IEEE  *)
(* 754 on them.  An operation that can raise returns a record whose field  *)
(* err is "" or the name of the Python exception class.                    *)
(***************************************************************************)
EXTENDS Integers, Sequences, FiniteSets, TLC

\* ------------------------------------------------------------------ bounds
MaxDofs == 2
MaxSteps == 3
MaxJacSteps == 5
MaxBackwardCalls == 2

\* ------------------------------------------------------------ float64 model
NaN == 2000000000
PosInf == NaN - 1
NegInf == 0 - PosInf
\* the entries of the initial last_x (1e+19): finite, and no input has it
LastXInit == PosInf - 1

IsNaN(v) == v = NaN
IsInf(v) == v = PosInf \/ v = NegInf
IsFinite(v) == v < PosInf /\ v > NegInf

FNeg(a) ==
    IF IsFinite(a) THEN 0 - a
    ELSE IF IsNaN(a) THEN NaN
    ELSE IF a = PosInf THEN NegInf
    ELSE PosInf

FAdd(a, b) ==
    IF IsFinite(a) /\ IsFinite(b) THEN a + b
    ELSE IF IsNaN(a) \/ IsNaN(b) THEN NaN
    ELSE IF IsInf(a) /\ IsInf(b) THEN (IF a = b THEN a ELSE NaN)
    ELSE IF IsInf(a) THEN a
    ELSE b

FSub(a, b) == IF IsFinite(a) /\ IsFinite(b) THEN a - b ELSE FAdd(a, FNeg(b))

FSign(a) == IF a > 0 THEN 1 ELSE IF a < 0 THEN -1 ELSE 0

FMul(a, b) ==
    IF IsFinite(a) /\ IsFinite(b) THEN a * b
    ELSE IF IsNaN(a) \/ IsNaN(b) THEN NaN
    ELSE IF FSign(a) * FSign(b) = 0 THEN NaN
    ELSE IF FSign(a) * FSign(b) > 0 THEN PosInf
    ELSE NegInf

\* -------------------------------------------------------- vectors, matrices
Min(a, b) == IF a < b THEN a ELSE b
Max(a, b) == IF a > b THEN a ELSE b

\* TLC keeps [k \in 1..n |-> e] unevaluated and evaluates e at every use;
\* Tup makes the tuple of its n values, once.
Tup(f, n) == SubSeq(f, 1, n)

Zeros(n) == Tup([k \in 1..n |-> 0], n)
Ones(n) == Tup([k \in 1..n |-> 1], n)

HasNaN(v) == \E k \in 1..Len(v) : IsNaN(v[k])

RECURSIVE FSumTo(_, _)
FSumTo(v, k) == IF k = 0 THEN 0 ELSE FAdd(FSumTo(v, k - 1), v[k])
FSum(v) == FSumTo(v, Len(v))

VecAdd(a, b) == Tup([k \in 1..Len(a) |-> FAdd(a[k], b[k])], Len(a))
VecSub(a, b) == Tup([k \in 1..Len(a) |-> FSub(a[k], b[k])], Len(a))
VecMul(a, b) == Tup([k \in 1..Len(a) |-> FMul(a[k], b[k])], Len(a))
VecScale(c, a) == Tup([k \in 1..Len(a) |-> FMul(c, a[k])], Len(a))

\* numpy's A @ v for a D x D matrix (a sequence of rows)
MatVec(A, v) ==
    Tup([r \in 1..Len(A) |-> FSum(Tup([c \in 1..Len(v) |-> FMul(A[r][c], v[c])], Len(v)))],
        Len(A))
\* np.matmul(A, B), A + B, c * A on D x D matrices
MatMul(A, B) ==
    Tup([r \in 1..Len(A) |->
            Tup([c \in 1..Len(B[1]) |->
                    FSum(Tup([k \in 1..Len(B) |-> FMul(A[r][k], B[k][c])], Len(B)))],
                Len(B[1]))],
        Len(A))
MatAdd(A, B) ==
    Tup([r \in 1..Len(A) |-> Tup([c \in 1..Len(A[r]) |-> FAdd(A[r][c], B[r][c])], Len(A[r]))],
        Len(A))
MatScale(s, A) ==
    Tup([r \in 1..Len(A) |-> Tup([c \in 1..Len(A[r]) |-> FMul(s, A[r][c])], Len(A[r]))],
        Len(A))
Identity(n) == Tup([r \in 1..n |-> Tup([c \in 1..n |-> IF r = c THEN 1 ELSE 0], n)], n)
ZeroMat(n) == Tup([r \in 1..n |-> Zeros(n)], n)
\* np.concatenate([A, B], axis=1)
ConcatCols(A, B) == Tup([r \in 1..Len(A) |-> A[r] \o B[r]], Len(A))

\* Python's x[a:b] on a sequence (a, b >= 0): clipped to the length
PySlice(x, a, b) == SubSeq(x, Min(a, Len(x)) + 1, Min(b, Len(x)))

\* numpy's out[a:b] = v: the slice is clipped to len(out); v must have the
\* slice's length or length 1 (broadcast), otherwise ValueError.
SliceAssign(out, a, b, v) ==
    LET lo == Min(a, Len(out))
        hi == Max(lo, Min(b, Len(out)))
        n == hi - lo
    IN  IF Len(v) = n
        THEN [err |-> "", out |-> Tup([k \in 1..Len(out) |->
                        IF k > lo /\ k <= hi THEN v[k - lo] ELSE out[k]], Len(out))]
        ELSE IF Len(v) = 1
        THEN [err |-> "", out |-> Tup([k \in 1..Len(out) |->
                        IF k > lo /\ k <= hi THEN v[1] ELSE out[k]], Len(out))]
        ELSE [err |-> "ValueError", out |-> out]

\* ------------------------------------------------- the external collaborators
\* The simulated world: a fixed linear system standing in for the physics
\* engine.  v' = PosVel p + VelVel v + ForceVel f,  p' = PosPos p + dt (v' - PosVel p).
TimeStep == 2
WorldPositions(D) == Tup([k \in 1..D |-> k], D)
WorldVelocities(D) == Ones(D)
PosPosJacobian(D) ==
    Tup([r \in 1..D |-> Tup([c \in 1..D |->
        IF r = c \/ c = r + 1 THEN 1 ELSE 0], D)], D)
PosVelJacobian(D) ==
    Tup([r \in 1..D |-> Tup([c \in 1..D |->
        IF r = c \/ r = c + 1 THEN 1 ELSE 0], D)], D)
VelVelJacobian(D) ==
    Tup([r \in 1..D |-> Tup([c \in 1..D |->
        IF r = c THEN 1 ELSE IF c = r + 1 THEN 2 ELSE 0], D)], D)
ForceVelJacobian(D) ==
    Tup([r \in 1..D |-> Tup([c \in 1..D |->
        IF r = c THEN 1 ELSE IF r = c + 1 THEN 1 ELSE 0], D)], D)
PositionUpperLimits(D) == Tup([k \in 1..D |-> PosInf], D)
PositionLowerLimits(D) == Tup([k \in 1..D |-> NegInf], D)
VelocityUpperLimits(D) == Tup([k \in 1..D |-> PosInf], D)
VelocityLowerLimits(D) == Tup([k \in 1..D |-> NegInf], D)
ForceUpperLimits(D) == Tup([k \in 1..D |-> PosInf], D)
ForceLowerLimits(D) == Tup([k \in 1..D |-> NegInf], D)

\* dart_layer(world, pos, vel, t, pointer): the next state and the snapshot
\* of the step (the point it linearises; its linear maps are the world's).
dart_layer(pos, vel, t) ==
    LET D == Len(pos)
        dv == VecAdd(MatVec(VelVelJacobian(D), vel), MatVec(ForceVelJacobian(D), t))
        next_vel == VecAdd(MatVec(PosVelJacobian(D), pos), dv)
        next_pos == VecAdd(MatVec(PosPosJacobian(D), pos), VecScale(TimeStep, dv))
    IN  [next_pos |-> next_pos, next_vel |-> next_vel,
         snapshot |-> <<pos, vel, t>>]

\* the caller's running and terminal cost
step_loss(pos, vel, t) == FAdd(FAdd(FSum(pos), FSum(vel)), FSum(t))
final_loss(pos, vel) == FAdd(FSum(pos), FSum(vel))

\* ---------------------------------------------------------------- the state
None == <<>>

VARIABLES
    world_dofs,            \* world.getNumDofs()
    steps,
    shooting_length,       \* self.shooting_length (clamped to steps)
    num_shots,
    tune_starting_point,
    enforce_loop,
    enforce_final_state,   \* None or a vector of 2 D entries
    mask,
    torques,               \* the .data of each torque tensor
    knot_poses,
    knot_vels,
    grads,                 \* the .grad of every tensor: [torques, knot_poses, knot_vels]
    last_x,
    snapshots,
    last_loss,
    last_preknot_poses,
    last_preknot_vels,
    last_terminal_pos,
    last_terminal_vel,
    controls,              \* what the last rollout passed to the cost and the dynamics
    ipopt_pc,              \* where ipopt() stands: "idle", "solve", "raised"
    jac_g_sparsity_indices,\* the pattern ipopt() handed to the solver
    log,                   \* the callbacks' reports of caught errors
    ret                    \* the last call and how it ended

config == <<world_dofs, steps, shooting_length, num_shots, tune_starting_point,
            enforce_loop, enforce_final_state, mask>>
store == <<torques, knot_poses, knot_vels>>
cache == <<last_x, snapshots, last_loss, last_preknot_poses, last_preknot_vels,
           last_terminal_pos, last_terminal_vel, controls>>
solver == <<ipopt_pc, jac_g_sparsity_indices, log>>
vars == <<config, store, grads, cache, solver, ret>>

\* ------------------------------------------------------------- the layout
\* Python's seq[k] for k >= 0 (TLA+ sequences start at 1)
At(seq, k) == seq[k + 1]

get_flat_problem_dim ==
    LET knot_phase_dim == world_dofs * 2
        torques_dim == shooting_length * world_dofs
        shot_dim == knot_phase_dim + torques_dim
        dims == num_shots * shot_dim
        dims2 == IF ~tune_starting_point THEN dims - 2 * world_dofs ELSE dims
    IN  dims2 - (steps % shooting_length) * world_dofs

get_constraint_dim ==
    LET knot_phase_dim == world_dofs * 2
        num_knot_points == num_shots - 1
        num_knot_points2 == IF enforce_loop \/ enforce_final_state # None
                            THEN num_knot_points + 1 ELSE num_knot_points
    IN  num_knot_points2 * knot_phase_dim

\* the tensors as they stand: their .data and their .grad
current == [torques |-> torques, knot_poses |-> knot_poses, knot_vels |-> knot_vels,
            grads |-> grads]

\* what flatten writes for knot i and for torque number tc, by kind
GradOrZeros(g) == IF g = None THEN Zeros(world_dofs) ELSE g
KnotPosEntry(src, i, which) ==
    CASE which = "grad" -> GradOrZeros(At(src.grads.knot_poses, i))
      [] which = "upper_bound" -> PositionUpperLimits(world_dofs)
      [] which = "lower_bound" -> PositionLowerLimits(world_dofs)
      [] OTHER -> At(src.knot_poses, i)
\* (a flatten that writes the knot's position where its velocity belongs)
KnotVelEntry_as_pos(src, i, which) == KnotPosEntry(src, i, which)
KnotVelEntry(src, i, which) ==
    CASE which = "grad" -> GradOrZeros(At(src.grads.knot_vels, i))
      [] which = "upper_bound" -> VelocityUpperLimits(world_dofs)
      [] which = "lower_bound" -> VelocityLowerLimits(world_dofs)
      [] OTHER -> At(src.knot_vels, i)
TorqueEntry(src, tc, which) ==
    CASE which = "grad" -> GradOrZeros(At(src.grads.torques, tc))
      [] which = "upper_bound" -> ForceUpperLimits(world_dofs)
      [] which = "lower_bound" -> ForceLowerLimits(world_dofs)
      [] OTHER -> At(src.torques, tc)

\* out[flat_cursor:flat_cursor+world_dofs] = v; flat_cursor += world_dofs
FlatWrite(st, v) ==
    IF st.err # "" THEN st
    ELSE LET written(r) == [st EXCEPT !.out = r.out, !.err = r.err,
                                      !.flat_cursor = @ + world_dofs]
         IN  written(SliceAssign(st.out, st.flat_cursor, st.flat_cursor + world_dofs, v))

RECURSIVE flatten_torques(_, _, _, _)
flatten_torques(src, st, j, which) ==
    IF j <= 0 \/ st.err # "" THEN st
    ELSE flatten_torques(src,
            [FlatWrite(st, TorqueEntry(src, st.torque_cursor, which))
                EXCEPT !.torque_cursor = @ + 1],
            j - 1, which)

RECURSIVE flatten_shots(_, _, _, _)
flatten_shots(src, st, i, which) ==
    IF i >= num_shots \/ st.err # "" THEN st
    ELSE LET st1 == IF i > 0 \/ tune_starting_point
                    THEN FlatWrite(FlatWrite(st, KnotPosEntry(src, i, which)),
                                   KnotVelEntry(src, i, which))
                    ELSE st
             shot_length == Min(shooting_length, Len(src.torques) - st1.torque_cursor)
         IN  flatten_shots(src, flatten_torques(src, st1, shot_length, which),
                           i + 1, which)

\* flatten(out, which) on the tensors src: [err, out, flat_cursor]
flatten(src, out, which) ==
    IF Len(out) # get_flat_problem_dim
    THEN [err |-> "AssertionError", out |-> out, flat_cursor |-> 0]
    ELSE LET st == flatten_shots(src, [out |-> out, err |-> "", flat_cursor |-> 0,
                                       torque_cursor |-> 0], 0, which)
         IN  [err |-> st.err, out |-> st.out, flat_cursor |-> st.flat_cursor]

RECURSIVE unflatten_torques(_, _, _)
unflatten_torques(st, j, x) ==
    IF j <= 0 THEN st
    ELSE unflatten_torques(
            [st EXCEPT !.torques[st.torque_cursor + 1] =
                            PySlice(x, st.flat_cursor, st.flat_cursor + world_dofs),
                       !.flat_cursor = @ + world_dofs,
                       !.torque_cursor = @ + 1],
            j - 1, x)

RECURSIVE unflatten_shots(_, _, _)
unflatten_shots(st, i, x) ==
    IF i >= num_shots THEN st
    ELSE LET st1 == IF i > 0 \/ tune_starting_point
                    THEN [st EXCEPT
                            !.knot_poses[i + 1] =
                                PySlice(x, st.flat_cursor, st.flat_cursor + world_dofs),
                            !.knot_vels[i + 1] =
                                PySlice(x, st.flat_cursor + world_dofs,
                                        st.flat_cursor + 2 * world_dofs),
                            !.flat_cursor = @ + 2 * world_dofs]
                    ELSE st
             shot_length == Min(shooting_length, Len(st.torques) - st1.torque_cursor)
         IN  unflatten_shots(unflatten_torques(st1, shot_length, x), i + 1, x)

\* unflatten(x): the store after it, [torques, knot_poses, knot_vels, ...]
unflatten(x) ==
    unflatten_shots([torques |-> torques, knot_poses |-> knot_poses,
                     knot_vels |-> knot_vels, flat_cursor |-> 0,
                     torque_cursor |-> 0], 0, x)

\* An Optional[int]: None is <<>>, the integer k is <<k>>
Some(k) == <<k>>

\* (offsets that count the knots' entries and leave out the torques')
RECURSIVE knot_x_offsets_from_knots_only(_, _, _)
knot_x_offsets_from_knots_only(i, flat_cursor, torque_cursor) ==
    IF i >= num_shots THEN <<>>
    ELSE LET free == i > 0 \/ tune_starting_point
         IN  <<IF free THEN Some(flat_cursor) ELSE None>>
             \o knot_x_offsets_from_knots_only(i + 1,
                    IF free THEN flat_cursor + world_dofs * 2 ELSE flat_cursor,
                    torque_cursor)

RECURSIVE knot_x_offsets_from(_, _, _)
knot_x_offsets_from(i, flat_cursor, torque_cursor) ==
    IF i >= num_shots THEN <<>>
    ELSE LET free == i > 0 \/ tune_starting_point
             cursor1 == IF free THEN flat_cursor + world_dofs * 2 ELSE flat_cursor
             shot_length == Min(shooting_length, Len(torques) - torque_cursor)
         IN  <<IF free THEN Some(flat_cursor) ELSE None>>
             \o knot_x_offsets_from(i + 1, cursor1 + shot_length * world_dofs,
                                    torque_cursor + shot_length)
get_knot_x_offsets == knot_x_offsets_from(0, 0, 0)

RECURSIVE knot_g_offsets_from(_, _)
knot_g_offsets_from(i, flat_cursor) ==
    IF i >= num_shots THEN <<>>
    ELSE IF i > 0
         THEN <<Some(flat_cursor)>> \o knot_g_offsets_from(i + 1, flat_cursor + world_dofs * 2)
         ELSE <<None>> \o knot_g_offsets_from(i + 1, flat_cursor)
get_knot_g_offsets ==
    knot_g_offsets_from(0, IF enforce_loop \/ enforce_final_state # None
                           THEN world_dofs * 2 ELSE 0)

\* ------------------------------------------------------------ the rollout
\* Python's seq[k] with a possibly negative k (k counts from the end)
PyAt(seq, k) == IF k < 0 THEN seq[Len(seq) + k + 1] ELSE seq[k + 1]
PyInRange(seq, k) == k < Len(seq) /\ k >= 0 - Len(seq)

\* torch's a * b on 1-d tensors: equal sizes, or one of size 1 (broadcast)
TorchMul(a, b) ==
    IF Len(a) = Len(b) THEN [err |-> "", v |-> VecMul(a, b)]
    ELSE IF Len(a) = 1 THEN [err |-> "", v |-> VecScale(a[1], b)]
    ELSE IF Len(b) = 1 THEN [err |-> "", v |-> VecScale(b[1], a)]
    ELSE [err |-> "RuntimeError", v |-> <<>>]

\* t = self.torques[i] * self.mask
masked_torque(st, i) == TorchMul(At(st.torques, i), mask)

\* One pass of the loop body of unroll for step i on the rollout record r.
unroll_step(st, r, i) ==
    LET at_knot == i % shooting_length = 0 /\ i > 0
        knot_index == i \div shooting_length
        knot_ok == ~at_knot \/ knot_index < Len(st.knot_poses)
        move(tm, r1, nxt) ==
            [r1 EXCEPT !.loss = FAdd(@, step_loss(r1.pos, r1.vel, tm.v)),
                       !.snapshots[i + 1] = nxt.snapshot,
                       !.controls = Append(@, tm.v),
                       !.pos = nxt.next_pos,
                       !.vel = nxt.next_vel]
        step(tm, r1) ==
            IF tm.err # "" THEN [r EXCEPT !.err = tm.err]
            ELSE IF ~knot_ok THEN [r EXCEPT !.err = "IndexError"]
            ELSE IF Len(tm.v) # world_dofs THEN [r1 EXCEPT !.err = "RuntimeError"]
            ELSE move(tm, r1, dart_layer(r1.pos, r1.vel, tm.v))
    IN  step(masked_torque(st, i),
             IF at_knot /\ knot_ok
             THEN [r EXCEPT !.last_preknot_poses[knot_index + 1] = r.pos,
                            !.last_preknot_vels[knot_index + 1] = r.vel,
                            !.pos = At(st.knot_poses, knot_index),
                            !.vel = At(st.knot_vels, knot_index)]
             ELSE r)

RECURSIVE unroll_from(_, _, _)
unroll_from(st, r, i) ==
    IF i >= steps \/ r.err # "" THEN r
    ELSE unroll_from(st, unroll_step(st, r, i), i + 1)

\* unroll() on the store st (use_knots = True): the caches after it.  The
\* knot loss it also returns is dropped by every caller and is left out.
unroll(st) ==
    LET done(r) ==
        IF r.err # ""
        THEN [err |-> r.err, snapshots |-> r.snapshots, controls |-> r.controls,
              last_preknot_poses |-> r.last_preknot_poses,
              last_preknot_vels |-> r.last_preknot_vels,
              last_terminal_pos |-> last_terminal_pos,
              last_terminal_vel |-> last_terminal_vel,
              last_loss |-> last_loss]
        ELSE [err |-> "", snapshots |-> r.snapshots, controls |-> r.controls,
              last_preknot_poses |-> r.last_preknot_poses,
              last_preknot_vels |-> r.last_preknot_vels,
              last_terminal_pos |-> r.pos,
              last_terminal_vel |-> r.vel,
              last_loss |-> FAdd(r.loss, final_loss(r.pos, r.vel))]
    IN  done(unroll_from(st,
                [pos |-> At(st.knot_poses, 0), vel |-> At(st.knot_vels, 0),
                 loss |-> 0, err |-> "", controls |-> <<>>,
                 snapshots |-> snapshots,
                 last_preknot_poses |-> last_preknot_poses,
                 last_preknot_vels |-> last_preknot_vels], 0))

\* the test of ensure_fresh_rollout: "(x != self.last_x).any() or True"
rollout_is_stale_unless_cached(x) == x # last_x
rollout_is_stale(x) == (x # last_x) \/ TRUE

\* ensure_fresh_rollout(x): the store, last_x and the caches after it
ensure_fresh_rollout(x) ==
    IF rollout_is_stale(x)
    THEN LET rolled(st, u) == [err |-> u.err, last_x |-> x, st |-> st, u |-> u]
             decoded(st) == rolled(st, unroll(st))
         IN  decoded(unflatten(x))
    ELSE [err |-> "", last_x |-> last_x,
          st |-> [torques |-> torques, knot_poses |-> knot_poses,
                  knot_vels |-> knot_vels],
          u |-> [err |-> "", snapshots |-> snapshots, controls |-> controls,
                 last_preknot_poses |-> last_preknot_poses,
                 last_preknot_vels |-> last_preknot_vels,
                 last_terminal_pos |-> last_terminal_pos,
                 last_terminal_vel |-> last_terminal_vel,
                 last_loss |-> last_loss]]

\* The state after ensure_fresh_rollout returned (or raised) with result f
Refreshed(f) ==
    /\ last_x' = f.last_x
    /\ torques' = f.st.torques
    /\ knot_poses' = f.st.knot_poses
    /\ knot_vels' = f.st.knot_vels
    /\ snapshots' = f.u.snapshots
    /\ controls' = f.u.controls
    /\ last_preknot_poses' = f.u.last_preknot_poses
    /\ last_preknot_vels' = f.u.last_preknot_vels
    /\ last_terminal_pos' = f.u.last_terminal_pos
    /\ last_terminal_vel' = f.u.last_terminal_vel
    /\ last_loss' = f.u.last_loss

\* -------------------------------------------------------------- f and g
\* What a method returns: None, or Some(v) for the value v.
\* eval_f(x): [err, rolled, value, f]: the exception raised (if any), whether
\* ensure_fresh_rollout ran, the value returned and the rollout's result.
eval_f(x) ==
    IF HasNaN(x) THEN [err |-> "AssertionError", rolled |-> FALSE, value |-> None, f |-> None]
    ELSE LET fresh(f) ==
                IF f.err # "" THEN [err |-> f.err, rolled |-> TRUE, value |-> None, f |-> f]
                ELSE IF IsNaN(f.u.last_loss)
                THEN [err |-> "AssertionError", rolled |-> TRUE, value |-> None, f |-> f]
                ELSE [err |-> "", rolled |-> TRUE, value |-> Some(f.u.last_loss), f |-> f]
         IN  fresh(ensure_fresh_rollout(x))

\* out[cursor:cursor+world_dofs] = v; cursor += world_dofs
GWrite(st, v) ==
    IF st.err # "" THEN st
    ELSE LET written(r) == [st EXCEPT !.out = r.out, !.err = r.err,
                                      !.cursor = @ + world_dofs]
         IN  written(SliceAssign(st.out, st.cursor, st.cursor + world_dofs, v))

\* (a knot loop that measures each gap against the previous knot)
RECURSIVE eval_g_knots_prev(_, _, _)
eval_g_knots_prev(st, i, f) ==
    IF i >= num_shots \/ st.err # "" THEN st
    ELSE IF i = 0 THEN eval_g_knots_prev(st, i + 1, f)
    ELSE eval_g_knots_prev(
            GWrite(GWrite(st, VecSub(At(f.u.last_preknot_poses, i), At(f.st.knot_poses, i - 1))),
                   VecSub(At(f.u.last_preknot_vels, i), At(f.st.knot_vels, i - 1))),
            i + 1, f)

RECURSIVE eval_g_knots(_, _, _)
eval_g_knots(st, i, f) ==
    IF i >= num_shots \/ st.err # "" THEN st
    ELSE IF i = 0 THEN eval_g_knots(st, i + 1, f)
    ELSE eval_g_knots(
            GWrite(GWrite(st, VecSub(At(f.u.last_preknot_poses, i), At(f.st.knot_poses, i))),
                   VecSub(At(f.u.last_preknot_vels, i), At(f.st.knot_vels, i))),
            i + 1, f)

\* (an eval_g whose leading block always refers to knot 0, also for a
\* fixed final state)
eval_g_fill_to_knot_0(out, f) ==
    LET st0 == [out |-> out, cursor |-> 0, err |-> ""]
        st1 == IF enforce_loop \/ enforce_final_state # None
               THEN GWrite(GWrite(st0, VecSub(f.u.last_terminal_pos, At(f.st.knot_poses, 0))),
                           VecSub(f.u.last_terminal_vel, At(f.st.knot_vels, 0)))
               ELSE st0
    IN  eval_g_knots(st1, 0, f)

\* the body of eval_g after the rollout f: [out, cursor, err]
eval_g_fill(out, f) ==
    LET st0 == [out |-> out, cursor |-> 0, err |-> ""]
        st1 == IF enforce_loop
               THEN GWrite(GWrite(st0, VecSub(f.u.last_terminal_pos, At(f.st.knot_poses, 0))),
                           VecSub(f.u.last_terminal_vel, At(f.st.knot_vels, 0)))
               ELSE IF enforce_final_state # None
               THEN GWrite(GWrite(st0,
                        VecSub(f.u.last_terminal_pos,
                               PySlice(enforce_final_state, 0, world_dofs))),
                        VecSub(f.u.last_terminal_vel,
                               PySlice(enforce_final_state, world_dofs,
                                       Len(enforce_final_state))))
               ELSE st0
    IN  eval_g_knots(st1, 0, f)

\* eval_g(x, out): [err, rolled, value, f]
eval_g(x, out) ==
    IF HasNaN(x) THEN [err |-> "AssertionError", rolled |-> FALSE, value |-> None, f |-> None]
    ELSE LET filled(f, g) ==
                IF f.err # "" THEN [err |-> f.err, rolled |-> TRUE, value |-> None, f |-> f]
                ELSE IF Len(out) # get_constraint_dim
                THEN [err |-> "AssertionError", rolled |-> TRUE, value |-> None, f |-> f]
                ELSE IF g.err # ""
                THEN [err |-> g.err, rolled |-> TRUE, value |-> None, f |-> f]
                ELSE IF g.cursor # Len(out) \/ HasNaN(g.out)
                THEN [err |-> "AssertionError", rolled |-> TRUE, value |-> None, f |-> f]
                ELSE [err |-> "", rolled |-> TRUE, value |-> Some(g.out), f |-> f]
             fresh(f) == filled(f, eval_g_fill(out, f))
         IN  fresh(ensure_fresh_rollout(x))

\* ------------------------------------------------------- the Jacobian of g
\* a D x C matrix written "row by row"
RECURSIVE MatFlatFrom(_, _)
MatFlatFrom(M, r) == IF r > Len(M) THEN <<>> ELSE M[r] \o MatFlatFrom(M, r + 1)
MatFlat(M) == MatFlatFrom(M, 1)

\* the local sensitivities of one step, read from its snapshot
velnext_pos(snapshot) == PosVelJacobian(world_dofs)
velnext_vel(snapshot) == VelVelJacobian(world_dofs)
velnext_force(snapshot) == ForceVelJacobian(world_dofs)
posnext_pos(snapshot) == PosPosJacobian(world_dofs)
posnext_vel(snapshot) == MatScale(TimeStep, velnext_vel(snapshot))
posnext_force(snapshot) == MatScale(TimeStep, velnext_force(snapshot))

\* p_end <-- f_t and v_end <-- f_t from the accumulators acc
posend_force(acc, snapshot) ==
    MatAdd(MatMul(acc.posend_posnext, posnext_force(snapshot)),
           MatMul(acc.posend_velnext, velnext_force(snapshot)))
velend_force(acc, snapshot) ==
    MatAdd(MatMul(acc.velend_posnext, posnext_force(snapshot)),
           MatMul(acc.velend_velnext, velnext_force(snapshot)))

\* the four accumulator updates at the end of one backward iteration, in
\* the order the code makes them (the last two read the first two's results)
jac_accumulate(acc, snapshot) ==
    LET updated(pp, vp) ==
            [posend_posnext |-> pp,
             posend_velnext |-> MatAdd(MatMul(pp, posnext_vel(snapshot)),
                                       MatMul(acc.posend_velnext, velnext_vel(snapshot))),
             velend_posnext |-> vp,
             velend_velnext |-> MatAdd(MatMul(vp, posnext_vel(snapshot)),
                                       MatMul(acc.velend_velnext, velnext_vel(snapshot)))]
    IN  updated(MatAdd(MatMul(acc.posend_posnext, posnext_pos(snapshot)),
                       MatMul(acc.posend_velnext, velnext_pos(snapshot))),
                MatAdd(MatMul(acc.velend_posnext, posnext_pos(snapshot)),
                       MatMul(acc.velend_velnext, velnext_pos(snapshot))))

jac_acc_init ==
    [posend_posnext |-> Identity(world_dofs), posend_velnext |-> ZeroMat(world_dofs),
     velend_posnext |-> ZeroMat(world_dofs), velend_velnext |-> Identity(world_dofs)]

\* for i in reversed(range(start_index, i + 1)): the values written and
\* the accumulators left, [values, acc, err]
RECURSIVE jac_backward(_, _, _, _)
jac_backward(snaps, i, start_index, js) ==
    IF i < start_index \/ js.err # "" THEN js
    ELSE IF ~PyInRange(snaps, i) THEN [js EXCEPT !.err = "IndexError"]
    ELSE IF PyAt(snaps, i) = None THEN [js EXCEPT !.err = "AttributeError"]
    ELSE LET snapshot == PyAt(snaps, i)
         IN  jac_backward(snaps, i - 1, start_index,
                [js EXCEPT !.values = @ \o MatFlat(posend_force(js.acc, snapshot))
                                        \o MatFlat(velend_force(js.acc, snapshot)),
                           !.acc = jac_accumulate(js.acc, snapshot)])

\* eval_jac_g's insertFullJacobian(last_knot_index, cursor, includePhasePhase):
\* the values it writes from cursor on, [values, err]
jac_insertFullJacobian(snaps, last_knot_index, includePhasePhase) ==
    LET start_index == last_knot_index * shooting_length
        end_index_exclusive == (last_knot_index + 1) * shooting_length
        posend_phase(js) == ConcatCols(js.acc.posend_posnext, js.acc.posend_velnext)
        velend_phase(js) == ConcatCols(js.acc.velend_posnext, js.acc.velend_velnext)
        written(js) ==
            IF js.err # "" \/ ~includePhasePhase THEN [values |-> js.values, err |-> js.err]
            ELSE [values |-> js.values \o MatFlat(posend_phase(js))
                                       \o MatFlat(velend_phase(js)),
                  err |-> ""]
    IN  written(jac_backward(snaps, end_index_exclusive - 1, start_index,
                             [values |-> <<>>, acc |-> jac_acc_init, err |-> ""]))

jac_insertNegativeIdentity == Tup([k \in 1..(world_dofs * 2) |-> -1], world_dofs * 2)

RECURSIVE jac_knots(_, _, _)
jac_knots(snaps, i, js) ==
    IF i >= num_shots \/ js.err # "" THEN js
    ELSE IF i = 0 THEN jac_knots(snaps, i + 1, js)
    ELSE LET inserted(full) ==
                [values |-> js.values \o full.values
                            \o (IF full.err = "" THEN jac_insertNegativeIdentity ELSE <<>>),
                 err |-> full.err]
         IN  jac_knots(snaps, i + 1,
                inserted(jac_insertFullJacobian(snaps, i - 1,
                                                i > 1 \/ tune_starting_point)))

\* every value eval_jac_g writes, in order, on the snapshots snaps: [values, err]
jac_g_values(snaps) ==
    LET last(full) == IF full.err = "" /\ tune_starting_point /\ enforce_loop
                      THEN [values |-> full.values \o jac_insertNegativeIdentity,
                            err |-> ""]
                      ELSE full
    IN  jac_knots(snaps, 0,
            IF enforce_loop \/ enforce_final_state # None
            THEN last(jac_insertFullJacobian(snaps, num_shots - 1, TRUE))
            ELSE [values |-> <<>>, err |-> ""])

\* ------------------------------------------------- the sparsity pattern
\* a block of h x w index pairs with top left corner (rowTopLeft, colTopLeft)
SparsityBlock(rowTopLeft, colTopLeft, h, w) ==
    [row |-> Tup([k \in 1..(h * w) |-> rowTopLeft + ((k - 1) \div w)], h * w),
     col |-> Tup([k \in 1..(h * w) |-> colTopLeft + ((k - 1) % w)], h * w)]
SparsityCat(a, b) == [row |-> a.row \o b.row, col |-> a.col \o b.col]
SparsityEmpty == [row |-> <<>>, col |-> <<>>]

sp_insertNegativeIdentity(rowTopLeft, colTopLeft) ==
    [row |-> Tup([k \in 1..(world_dofs * 2) |-> rowTopLeft + k - 1], world_dofs * 2),
     col |-> Tup([k \in 1..(world_dofs * 2) |-> colTopLeft + k - 1], world_dofs * 2)]
sp_insertPhasePhaseJacobian(rowTopLeft, colTopLeft) ==
    SparsityBlock(rowTopLeft, colTopLeft, world_dofs * 2, world_dofs * 2)
sp_insertTorquePhaseJacobian(rowTopLeft, colTopLeft) ==
    SparsityBlock(rowTopLeft, colTopLeft, world_dofs * 2, world_dofs)

\* (torque locations listed only for the steps a rollout has simulated)
RECURSIVE torque_jac_locations_simulated(_, _)
torque_jac_locations_simulated(i, cursor) ==
    IF i >= shooting_length \/ snapshots[i + 1] = None THEN <<>>
    ELSE <<cursor>> \o (IF cursor + world_dofs >= get_flat_problem_dim THEN <<>>
                         ELSE torque_jac_locations_simulated(i + 1, cursor + world_dofs))

\* torque_jac_locations: "for i in range(self.shooting_length): append(cursor);
\* cursor += world_dofs; if cursor >= n: break"
RECURSIVE torque_jac_locations(_, _)
torque_jac_locations(i, cursor) ==
    IF i >= shooting_length THEN <<>>
    ELSE <<cursor>> \o (IF cursor + world_dofs >= get_flat_problem_dim THEN <<>>
                         ELSE torque_jac_locations(i + 1, cursor + world_dofs))

\* the torque blocks, last location first
RECURSIVE sp_torque_blocks(_, _, _)
sp_torque_blocks(rowTopLeft, locations, k) ==
    IF k < 1 THEN SparsityEmpty
    ELSE SparsityCat(sp_insertTorquePhaseJacobian(rowTopLeft, locations[k]),
                     sp_torque_blocks(rowTopLeft, locations, k - 1))

\* get_jac_g_sparsity_indices' insertFullJacobian(rowTopLeft, colTopLeft,
\* includePhasePhase) with colTopLeft an Optional[int]: [err, pairs]
sp_insertFullJacobian(rowTopLeft, colTopLeft, includePhasePhase) ==
    IF colTopLeft = None THEN [err |-> "TypeError", pairs |-> SparsityEmpty]
    ELSE LET c == colTopLeft[1]
             cursor == IF includePhasePhase THEN c + world_dofs * 2 ELSE c
             blocks(locations) == sp_torque_blocks(rowTopLeft, locations, Len(locations))
             inserted(tq) ==
                [err |-> "",
                 pairs |-> IF includePhasePhase
                           THEN SparsityCat(tq, sp_insertPhasePhaseJacobian(rowTopLeft, c))
                           ELSE tq]
         IN  inserted(blocks(torque_jac_locations(0, cursor)))

RECURSIVE sp_knots(_, _, _, _)
sp_knots(i, knot_x_offsets, knot_g_offsets, sp) ==
    IF i >= num_shots \/ sp.err # "" THEN sp
    ELSE IF i = 0 THEN sp_knots(i + 1, knot_x_offsets, knot_g_offsets, sp)
    ELSE LET g == At(knot_g_offsets, i)[1]
             inserted(full) ==
                IF full.err # "" THEN [err |-> full.err, pairs |-> sp.pairs]
                ELSE [err |-> "",
                      pairs |-> SparsityCat(SparsityCat(sp.pairs, full.pairs),
                                    sp_insertNegativeIdentity(g, At(knot_x_offsets, i)[1]))]
         IN  sp_knots(i + 1, knot_x_offsets, knot_g_offsets,
                inserted(IF At(knot_x_offsets, i - 1) = None
                         THEN sp_insertFullJacobian(g, Some(0), FALSE)
                         ELSE sp_insertFullJacobian(g, At(knot_x_offsets, i - 1), TRUE)))

\* get_jac_g_sparsity_indices(): [err, pairs] with pairs = [row, col]
get_jac_g_sparsity_indices ==
    LET first(knot_x_offsets, last) ==
            IF enforce_loop \/ enforce_final_state # None
            THEN IF Len(knot_x_offsets) = 0
                 THEN [err |-> "IndexError", pairs |-> SparsityEmpty]
                 ELSE IF last.err # "" THEN last
                 ELSE IF At(knot_x_offsets, 0) = None
                 THEN (IF tune_starting_point
                       THEN [err |-> "AssertionError", pairs |-> last.pairs]
                       ELSE last)
                 ELSE IF enforce_loop
                 THEN [err |-> "",
                       pairs |-> SparsityCat(last.pairs,
                            sp_insertNegativeIdentity(0, At(knot_x_offsets, 0)[1]))]
                 ELSE last
            ELSE [err |-> "", pairs |-> SparsityEmpty]
        pattern(knot_x_offsets, knot_g_offsets) ==
            sp_knots(0, knot_x_offsets, knot_g_offsets,
                first(knot_x_offsets,
                      sp_insertFullJacobian(0, PyAt(knot_x_offsets, Len(knot_x_offsets) - 1),
                                            TRUE)))
    IN  pattern(get_knot_x_offsets, get_knot_g_offsets)

\* eval_jac_g(x, out): [err, rolled, value, f, cursor]
eval_jac_g(x, out) ==
    IF HasNaN(x)
    THEN [err |-> "AssertionError", rolled |-> FALSE, value |-> None, f |-> None,
          cursor |-> 0]
    ELSE LET written(f, j, sp, cursor, filled) ==
                LET raised(e) == [err |-> e, rolled |-> TRUE, value |-> None, f |-> f,
                                  cursor |-> cursor]
                IN  IF f.err # "" THEN [raised(f.err) EXCEPT !.cursor = 0]
                    ELSE IF j.err # "" THEN raised(j.err)
                    ELSE IF cursor > Len(out) THEN raised("IndexError")
                    ELSE IF sp.err # "" THEN raised(sp.err)
                    ELSE IF Len(out) # Len(sp.pairs.row) \/ cursor # Len(sp.pairs.row)
                            \/ HasNaN(filled)
                    THEN raised("AssertionError")
                    ELSE [err |-> "", rolled |-> TRUE, value |-> Some(filled), f |-> f,
                          cursor |-> cursor]
             assembled(f, j) ==
                written(f, j, get_jac_g_sparsity_indices, Len(j.values),
                        Tup([k \in 1..Len(out) |->
                                IF k <= Len(j.values) THEN j.values[k] ELSE out[k]],
                            Len(out)))
             fresh(f) == assembled(f, jac_g_values(f.u.snapshots))
         IN  fresh(ensure_fresh_rollout(x))

\* ---------------------------------------------------------- the gradient
\* tensors(): the tensors whose gradient eval_grad_f zeroes, as
\* [torques, knot_poses, knot_vels] sets of Python indices
tensors ==
    [torques |-> 0..(Len(torques) - 1),
     knot_vels |-> 1..(Len(knot_vels) - 1),
     knot_poses |-> (1..(Len(knot_poses) - 1))
                    \cup (IF tune_starting_point THEN {0} ELSE {})]

\* "if tensor.grad is not None: tensor.grad.data.zero_()" for each of them
ZeroOf(g) == IF g = None THEN None ELSE Zeros(Len(g))
zero_grads(g) ==
    [torques |-> Tup([k \in 1..Len(g.torques) |->
                    IF k - 1 \in tensors.torques THEN ZeroOf(g.torques[k]) ELSE g.torques[k]],
                    Len(g.torques)),
     knot_poses |-> Tup([k \in 1..Len(g.knot_poses) |->
                    IF k - 1 \in tensors.knot_poses THEN ZeroOf(g.knot_poses[k])
                    ELSE g.knot_poses[k]], Len(g.knot_poses)),
     knot_vels |-> Tup([k \in 1..Len(g.knot_vels) |->
                    IF k - 1 \in tensors.knot_vels THEN ZeroOf(g.knot_vels[k])
                    ELSE g.knot_vels[k]], Len(g.knot_vels))]

\* The autodiff runtime: reverse-mode differentiation of last_loss along the
\* graph the rollout built.  adj_pos and adj_vel are d loss / d (pos, vel)
\* of the state a step hands on; a knot cuts the graph (the state before it
\* reaches the loss through nothing: the knot loss is not part of last_loss).
Transpose(M) == Tup([c \in 1..Len(M) |-> Tup([r \in 1..Len(M) |-> M[r][c]], Len(M))], Len(M))
requires_grad(field, k) == field = "torques" \/ k > 1 \/ tune_starting_point
Accumulate(g, d) == IF g = None THEN d ELSE VecAdd(g, d)

\* d step_loss / d (pos, vel, t) and d final_loss / d (pos, vel)
step_loss_gradient == Ones(world_dofs)
final_loss_gradient == Ones(world_dofs)

RECURSIVE backward_from(_, _, _, _)
backward_from(g, i, adj_pos, adj_vel) ==
    IF i < 0 THEN g
    ELSE LET D == world_dofs
             adj_dv == VecAdd(adj_vel, VecScale(TimeStep, adj_pos))
             d_t == VecAdd(step_loss_gradient,
                           MatVec(Transpose(ForceVelJacobian(D)), adj_dv))
             d_pos == VecAdd(step_loss_gradient,
                        VecAdd(MatVec(Transpose(PosPosJacobian(D)), adj_pos),
                               MatVec(Transpose(PosVelJacobian(D)), adj_vel)))
             d_vel == VecAdd(step_loss_gradient,
                             MatVec(Transpose(VelVelJacobian(D)), adj_dv))
             at_knot == i % shooting_length = 0
             k == (i \div shooting_length) + 1
             g1 == [g EXCEPT !.torques[i + 1] = Accumulate(@, VecMul(d_t, mask))]
             g2 == IF at_knot /\ requires_grad("knot_poses", k)
                   THEN [g1 EXCEPT !.knot_poses[k] = Accumulate(@, d_pos),
                                   !.knot_vels[k] = Accumulate(@, d_vel)]
                   ELSE g1
         IN  IF at_knot
             THEN backward_from(g2, i - 1, Zeros(D), Zeros(D))
             ELSE backward_from(g2, i - 1, d_pos, d_vel)

\* self.last_loss.backward(): every tensor that requires grad accumulates
backward(g) == backward_from(g, steps - 1, final_loss_gradient, final_loss_gradient)

\* How often backward() has run, read off the gradient it keeps adding to:
\* the one of knot_vels[0], which tensors() leaves out.  The tensors whose
\* gradient is zeroed before every backward() look the same after each.
NoGrads ==
    [torques |-> Tup([k \in 1..Len(torques) |-> None], Len(torques)),
     knot_poses |-> Tup([k \in 1..Len(knot_poses) |-> None], Len(knot_poses)),
     knot_vels |-> Tup([k \in 1..Len(knot_vels) |-> None], Len(knot_vels))]
backward_calls ==
    IF ~tune_starting_point \/ At(grads.knot_vels, 0) = None THEN 0
    ELSE LET once == At(backward(NoGrads).knot_vels, 0)
         IN  CHOOSE k \in 1..MaxBackwardCalls : At(grads.knot_vels, 0) = VecScale(k, once)

\* eval_grad_f(x, out): [err, rolled, value, f, grads]
eval_grad_f(x, out) ==
    IF HasNaN(x) \/ Len(out) # get_flat_problem_dim
    THEN [err |-> "AssertionError", rolled |-> FALSE, value |-> None, f |-> None,
          grads |-> grads]
    ELSE LET flat(f, g, fl) ==
                LET raised(e, gg) == [err |-> e, rolled |-> TRUE, value |-> None, f |-> f,
                                      grads |-> gg]
                IN  IF f.err # "" THEN raised(f.err, grads)
                    ELSE IF fl.err # "" THEN raised(fl.err, g)
                    ELSE IF HasNaN(fl.out) THEN raised("AssertionError", g)
                    ELSE [err |-> "", rolled |-> TRUE, value |-> Some(fl.out), f |-> f,
                          grads |-> g]
             propagated(f, g) ==
                flat(f, g, flatten([torques |-> f.st.torques, knot_poses |-> f.st.knot_poses,
                                    knot_vels |-> f.st.knot_vels, grads |-> g], out, "grad"))
             fresh(f) == propagated(f, backward(zero_grads(grads)))
         IN  fresh(ensure_fresh_rollout(x))

\* ------------------------------------------------ the testing utilities
\* dense[rows[i]][cols[i]] = values[i] for i in range(len(values)) on an
\* m x n matrix of zeros: a later value replaces an earlier one
ScatterDense(m, n, pairs, values) ==
    Tup([r \in 1..m |-> Tup([c \in 1..n |->
        LET ks == {k \in 1..Len(values) : pairs.row[k] = r - 1 /\ pairs.col[k] = c - 1}
        IN  IF ks = {} THEN 0 ELSE values[CHOOSE k \in ks : \A l \in ks : l <= k]], n)], m)

ScatterInRange(m, n, pairs, count) ==
    \A k \in 1..count : /\ pairs.row[k] < m /\ pairs.row[k] >= 0 - m
                        /\ pairs.col[k] < n /\ pairs.col[k] >= 0 - n

\* _test_get_dense_jac_g(x): [err, rolled, value, f, called], called telling
\* whether eval_jac_g was reached
test_get_dense_jac_g(x) ==
    LET n == get_flat_problem_dim
        m == get_constraint_dim
        dense(sp, j) ==
            IF m < 0 \/ n < 0
            THEN [err |-> "ValueError", rolled |-> FALSE, value |-> None, f |-> None,
                  called |-> FALSE]
            ELSE IF sp.err # ""
            THEN [err |-> sp.err, rolled |-> FALSE, value |-> None, f |-> None,
                  called |-> FALSE]
            ELSE IF j.err # ""
            THEN [err |-> j.err, rolled |-> j.rolled, value |-> None, f |-> j.f,
                  called |-> TRUE]
            ELSE IF ~ScatterInRange(m, n, sp.pairs, Len(j.value[1]))
            THEN [err |-> "IndexError", rolled |-> TRUE, value |-> None, f |-> j.f,
                  called |-> TRUE]
            ELSE [err |-> "", rolled |-> TRUE,
                  value |-> Some(ScatterDense(m, n, sp.pairs, j.value[1])), f |-> j.f,
                  called |-> TRUE]
        pattern(sp) == dense(sp, eval_jac_g(x, Zeros(Len(sp.pairs.row))))
    IN  pattern(get_jac_g_sparsity_indices)

\* g(x) as eval_g returns it into np.zeros(m): [err, rolled, value, f]
g_of(x) ==
    IF get_constraint_dim < 0
    THEN [err |-> "ValueError", rolled |-> FALSE, value |-> None, f |-> None]
    ELSE eval_g(x, Zeros(get_constraint_dim))

XPrime(x, i) == [x EXCEPT ![i + 1] = FAdd(@, 1)]

\* _test_brute_force_jac_g(x), with the step eps taken as 1: g is affine in
\* x in the stand-in world, so the quotient is the derivative for any eps.
\* [err, rolled, value, f, unflattened]
brute_force_from(x, g, cols) ==
    LET n == get_flat_problem_dim
        m == get_constraint_dim
        bad == {c \in 1..n : cols[c].err # ""}
        first == CHOOSE c \in bad : \A l \in bad : c <= l
    IN  IF g.err # "" \/ n < 0
        THEN [err |-> g.err, rolled |-> g.rolled, value |-> None, f |-> g.f,
              unflattened |-> FALSE]
        ELSE IF bad # {}
        THEN [err |-> cols[first].err, rolled |-> TRUE, value |-> None,
              f |-> cols[first].f, unflattened |-> FALSE]
        ELSE [err |-> "", rolled |-> TRUE,
              value |-> Some(Tup([r \in 1..m |-> Tup([c \in 1..n |->
                            FSub(cols[c].value[1][r], g.value[1][r])], n)], m)),
              f |-> IF n > 0 THEN cols[n].f ELSE g.f, unflattened |-> TRUE]
test_brute_force_jac_g(x) ==
    brute_force_from(x, g_of(x),
        Tup([c \in 1..get_flat_problem_dim |-> g_of(XPrime(x, c - 1))],
            get_flat_problem_dim))

\* ------------------------------------------------------------- the inputs
\* The vectors the callers pass: a vector with pairwise different entries,
\* the same with its knots moved onto the simulated trajectory, and vectors
\* with one NaN or one infinite entry.
Ramp(n) == Tup([k \in 1..n |-> k], n)
WithAt(v, k, s) == [v EXCEPT ![k] = s]

RECURSIVE shoot_through(_, _, _, _)
shoot_through(st, pos, vel, i) ==
    IF i >= steps THEN st
    ELSE LET at_knot == i % shooting_length = 0 /\ i > 0
                        /\ i \div shooting_length < Len(st.knot_poses)
             st1 == IF at_knot
                    THEN [st EXCEPT !.knot_poses[(i \div shooting_length) + 1] = pos,
                                    !.knot_vels[(i \div shooting_length) + 1] = vel]
                    ELSE st
             nxt == dart_layer(pos, vel, masked_torque(st, i).v)
         IN  shoot_through(st1, nxt.next_pos, nxt.next_vel, i + 1)

Divisible == num_shots >= 1 /\ steps = num_shots * shooting_length

OnTrajectory(x) ==
    IF ~Divisible THEN x
    ELSE LET st == unflatten(x)
             moved == shoot_through(st, At(st.knot_poses, 0), At(st.knot_vels, 0), 0)
         IN  flatten([torques |-> moved.torques, knot_poses |-> moved.knot_poses,
                      knot_vels |-> moved.knot_vels, grads |-> grads],
                     Zeros(Len(x)), "state").out

\* x with its last entry (the last component of the last torque) set to s
WithLast(x, s) == IF Len(x) = 0 THEN x ELSE WithAt(x, Len(x), s)

\* two finite vectors; NaN-free vectors, one of them with an infinite entry;
\* the same and one with a NaN; what the solver asks about
FiniteInputs == {Ramp(get_flat_problem_dim), VecScale(2, Ramp(get_flat_problem_dim))}
NaNFreeInputs ==
    {Ramp(get_flat_problem_dim), OnTrajectory(Ramp(get_flat_problem_dim)),
     WithLast(Ramp(get_flat_problem_dim), PosInf)}
XInputs == NaNFreeInputs \cup {WithLast(Ramp(get_flat_problem_dim), NaN)}
SolverInputs == {Ramp(get_flat_problem_dim), WithLast(Ramp(get_flat_problem_dim), NaN)}

\* ------------------------------------------------------------ construction
FinalStates(D) == {None, [k \in 1..(2 * D) |-> 3]}
\* the disable_actuators lists tried: none, or the last actuator
DisableActuators(D) == {{}, {D - 1}}

\* __init__ with steps and the requested shooting_length up to maxSteps:
\* the states in which construction succeeds
Construct(maxSteps) ==
    /\ world_dofs \in 1..MaxDofs
    /\ steps \in 1..maxSteps
    /\ \E requested \in 1..maxSteps :
        /\ shooting_length = Min(requested, steps)
        /\ num_shots = steps \div requested
    /\ tune_starting_point \in BOOLEAN
    /\ enforce_loop \in BOOLEAN
    /\ enforce_final_state \in FinalStates(world_dofs)
    /\ ~(enforce_loop /\ enforce_final_state # None)
    /\ \E disable_actuators \in DisableActuators(world_dofs) :
        mask = [k \in 1..world_dofs |-> IF k - 1 \in disable_actuators THEN 0 ELSE 1]
    /\ torques = [k \in 1..steps |-> Zeros(world_dofs)]
    /\ knot_poses = <<WorldPositions(world_dofs)>>
                    \o [k \in 1..(num_shots - 1) |-> Zeros(world_dofs)]
    /\ knot_vels = <<WorldVelocities(world_dofs)>>
                    \o [k \in 1..(num_shots - 1) |-> Zeros(world_dofs)]
    /\ grads = NoGrads
    /\ get_flat_problem_dim >= 0
    /\ last_x = [k \in 1..get_flat_problem_dim |-> LastXInit]
    /\ snapshots = [k \in 1..steps |-> None]
    /\ last_loss = 0
    /\ last_preknot_poses = [k \in 1..num_shots |-> Zeros(world_dofs)]
    /\ last_preknot_vels = [k \in 1..num_shots |-> Zeros(world_dofs)]
    /\ last_terminal_pos = Zeros(world_dofs)
    /\ last_terminal_vel = Zeros(world_dofs)
    /\ controls = <<>>
    /\ ipopt_pc = "idle"
    /\ jac_g_sparsity_indices = None
    /\ log = <<>>
    /\ ret = [op |-> "__init__", via |-> "direct", x |-> <<>>, err |-> "",
              caught |-> "", value |-> None]

Init == Construct(MaxSteps)

\* ---------------------------------------------------------------- actions
\* what the NaN check at the head of an evaluation prints
FedNaNs(name, x) == IF HasNaN(x) THEN <<name \o " was fed NaNs!">> ELSE <<>>

\* The caches and the store after a call with result r
Effects(r) ==
    IF r.rolled THEN Refreshed(r.f) ELSE UNCHANGED <<store, cache>>

\* A method called by the user's code: what it raises reaches the caller.
Direct(op, x, r) ==
    /\ ret' = [op |-> op, via |-> "direct", x |-> x, err |-> r.err,
               caught |-> "", value |-> r.value]
    /\ UNCHANGED <<config, ipopt_pc, jac_g_sparsity_indices>>

\* flatten(np.zeros(n), 'state')
Flatten ==
    /\ \E r \in {flatten(current, Zeros(get_flat_problem_dim), "state")} :
        Direct("flatten", <<>>,
               [err |-> r.err, value |-> IF r.err = "" THEN Some(r.out) ELSE None])
    /\ log' = <<>>
    /\ UNCHANGED <<store, cache, grads>>

Unflatten(x) ==
    /\ \E st \in {unflatten(x)} :
        /\ torques' = st.torques
        /\ knot_poses' = st.knot_poses
        /\ knot_vels' = st.knot_vels
    /\ Direct("unflatten", x, [err |-> "", value |-> None])
    /\ log' = <<>>
    /\ UNCHANGED <<cache, grads>>

Unroll ==
    /\ \E u \in {unroll(current)} :
        /\ snapshots' = u.snapshots
        /\ controls' = u.controls
        /\ last_preknot_poses' = u.last_preknot_poses
        /\ last_preknot_vels' = u.last_preknot_vels
        /\ last_terminal_pos' = u.last_terminal_pos
        /\ last_terminal_vel' = u.last_terminal_vel
        /\ last_loss' = u.last_loss
        /\ Direct("unroll", <<>>,
                  [err |-> u.err,
                   value |-> IF u.err = "" THEN Some(u.last_loss) ELSE None])
    /\ log' = <<>>
    /\ UNCHANGED <<store, last_x, grads>>

EvalF(x) ==
    /\ \E r \in {eval_f(x)} : Effects(r) /\ Direct("eval_f", x, r)
    /\ log' = FedNaNs("f(x)", x)
    /\ UNCHANGED grads

EvalGradF(x) ==
    /\ backward_calls < MaxBackwardCalls
    /\ \E r \in {eval_grad_f(x, Zeros(get_flat_problem_dim))} :
        Effects(r) /\ Direct("eval_grad_f", x, r) /\ grads' = r.grads
    /\ log' = FedNaNs("grad f(x)", x)

EvalG(x) ==
    /\ \E r \in {g_of(x)} : Effects(r) /\ Direct("eval_g", x, r)
    /\ log' = FedNaNs("g(x)", x)
    /\ UNCHANGED grads

\* eval_jac_g(x, np.zeros(len(rows))) with rows from get_jac_g_sparsity_indices()
EvalJacG(x) ==
    /\ \E sp \in {get_jac_g_sparsity_indices} :
        /\ sp.err = ""
        /\ \E r \in {eval_jac_g(x, Zeros(Len(sp.pairs.row)))} :
            Effects(r) /\ Direct("eval_jac_g", x, r)
    /\ log' = FedNaNs("jac g(x)", x)
    /\ UNCHANGED grads

GetJacGSparsityIndices ==
    /\ \E sp \in {get_jac_g_sparsity_indices} :
        Direct("get_jac_g_sparsity_indices", <<>>,
               [err |-> sp.err, value |-> IF sp.err = "" THEN Some(sp.pairs) ELSE None])
    /\ log' = <<>>
    /\ UNCHANGED <<store, cache, grads>>

TestGetDenseJacG(x) ==
    /\ \E r \in {test_get_dense_jac_g(x)} :
        /\ Effects(r)
        /\ Direct("_test_get_dense_jac_g", x, r)
        /\ log' = IF r.called THEN FedNaNs("jac g(x)", x) ELSE <<>>
    /\ UNCHANGED grads

TestBruteForceJacG(x) ==
    /\ \E r \in {test_brute_force_jac_g(x)} :
        /\ IF r.rolled
           THEN /\ last_x' = r.f.last_x
                /\ snapshots' = r.f.u.snapshots
                /\ controls' = r.f.u.controls
                /\ last_preknot_poses' = r.f.u.last_preknot_poses
                /\ last_preknot_vels' = r.f.u.last_preknot_vels
                /\ last_terminal_pos' = r.f.u.last_terminal_pos
                /\ last_terminal_vel' = r.f.u.last_terminal_vel
                /\ last_loss' = r.f.u.last_loss
                /\ \E st \in {IF r.unflattened THEN unflatten(x) ELSE r.f.st} :
                    /\ torques' = st.torques
                    /\ knot_poses' = st.knot_poses
                    /\ knot_vels' = st.knot_vels
           ELSE UNCHANGED <<store, cache>>
        /\ Direct("_test_brute_force_jac_g", x, r)
    /\ log' = IF get_constraint_dim >= 0 THEN FedNaNs("g(x)", x) ELSE <<>>
    /\ UNCHANGED grads

\* ------------------------------------------------------------- the solver
\* "except Exception": the classes the callbacks' handlers catch
ExceptionSubclasses ==
    {"AssertionError", "IndexError", "TypeError", "ValueError", "RuntimeError",
     "AttributeError"}
\* (a handler written "except AssertionError")
callback_catches_assertions(err) == err = "AssertionError"
callback_catches(err) == err \in ExceptionSubclasses

\* One of the four closures of ipopt() called with result r of the method it
\* wraps: [err, caught, value, log]
callback(what, r) ==
    IF r.err # "" /\ callback_catches(r.err)
    THEN [err |-> "", caught |-> r.err, value |-> None,
          log |-> <<"ERROR when IPOPT was evaluating our " \o what \o "!", r.err>>]
    ELSE [err |-> r.err, caught |-> "", value |-> r.value, log |-> <<>>]

\* A callback called by the solver while nlp.solve runs, the method it wraps
\* having ended with r: an error that leaves the callback unwinds solve and
\* ipopt().  fed is the name under which the method reports NaNs in x.
Callback(op, what, fed, x, r) ==
    /\ \E c \in {callback(what, r)} :
        /\ ret' = [op |-> op, via |-> "callback", x |-> x, err |-> c.err,
                   caught |-> c.caught, value |-> c.value]
        /\ log' = FedNaNs(fed, x) \o c.log
        /\ ipopt_pc' = IF c.err # "" THEN "idle" ELSE "solve"
    /\ Effects(r)
    /\ UNCHANGED <<config, jac_g_sparsity_indices>>

CbEvalF(x) ==
    /\ ipopt_pc = "solve"
    /\ \E r \in {eval_f(x)} : Callback("eval_f", "f(x)", "f(x)", x, r)
    /\ UNCHANGED grads

CbEvalGradF(x) ==
    /\ ipopt_pc = "solve"
    /\ backward_calls < MaxBackwardCalls
    /\ \E r \in {eval_grad_f(x, Zeros(get_flat_problem_dim))} :
        /\ Callback("eval_grad_f", "gradient of f(x)", "grad f(x)", x, r)
        /\ grads' = r.grads

CbEvalG(x) ==
    /\ ipopt_pc = "solve"
    /\ \E r \in {eval_g(x, Zeros(get_constraint_dim))} :
        Callback("eval_g", "g(x)", "g(x)", x, r)
    /\ UNCHANGED grads

CbEvalJacG(x) ==
    /\ ipopt_pc = "solve"
    /\ \E r \in {eval_jac_g(x, Zeros(Len(jac_g_sparsity_indices[1].row)))} :
        Callback("eval_jac_g", "Jacobian of g(x)", "jac g(x)", x, r)
    /\ UNCHANGED grads

\* ipopt() up to the call of nlp.solve: the bounds, the pattern, the closures,
\* the problem, x0 and the Jacobian evaluated once at x0 through its closure
Ipopt ==
    /\ ipopt_pc = "idle"
    /\ \E lower_bounds \in {flatten(current, Zeros(get_flat_problem_dim), "lower_bound")},
          upper_bounds \in {flatten(current, Zeros(get_flat_problem_dim), "upper_bound")},
          sp \in {get_jac_g_sparsity_indices},
          x0 \in {flatten(current, Zeros(get_flat_problem_dim), "state")} :
        \E r \in {eval_jac_g(x0.out, Zeros(Len(sp.pairs.row)))} :
          \E c \in {callback("Jacobian of g(x)", r)} :
            LET before == IF lower_bounds.err # "" THEN lower_bounds.err
                          ELSE IF upper_bounds.err # "" THEN upper_bounds.err
                          ELSE IF sp.err # "" THEN sp.err
                          ELSE IF get_constraint_dim < 0 THEN "ValueError"
                          ELSE x0.err
                err == IF before # "" THEN before ELSE c.err
            IN  /\ ret' = [op |-> "ipopt", via |-> "direct", x |-> <<>>, err |-> err,
                           caught |-> IF before = "" THEN c.caught ELSE "",
                           value |-> None]
                /\ IF before = ""
                   THEN Effects(r) /\ log' = FedNaNs("jac g(x)", x0.out) \o c.log
                   ELSE UNCHANGED <<store, cache>> /\ log' = <<>>
                /\ ipopt_pc' = IF err = "" THEN "solve" ELSE "idle"
                /\ jac_g_sparsity_indices' =
                        IF err = "" THEN Some(sp.pairs) ELSE jac_g_sparsity_indices
    /\ UNCHANGED <<config, grads>>

\* nlp.solve returns _x and ipopt() ends with self.unflatten(_x)
SolveReturns(x) ==
    /\ ipopt_pc = "solve"
    /\ \E st \in {unflatten(x)} :
        /\ torques' = st.torques
        /\ knot_poses' = st.knot_poses
        /\ knot_vels' = st.knot_vels
    /\ ret' = [op |-> "ipopt", via |-> "direct", x |-> x, err |-> "",
               caught |-> "", value |-> None]
    /\ ipopt_pc' = "idle"
    /\ log' = <<>>
    /\ UNCHANGED <<config, cache, grads, jac_g_sparsity_indices>>

\* The layout: encoding the store and decoding a vector.
NextLayout ==
    \/ Flatten
    \/ \E x \in XInputs : Unflatten(x)

SpecLayout == Init /\ [][NextLayout]_vars

\* The rollout: decoding, simulating, and the two evaluations that read
\* what the rollout leaves.
NextRollout ==
    \/ Unroll
    \/ \E x \in XInputs : Unflatten(x)
    \/ \E x \in NaNFreeInputs :
        \/ EvalF(x)
        \/ EvalG(x)

SpecRollout == Init /\ [][NextRollout]_vars

\* The four evaluations as the user's code calls them, and decoding.
NextEval ==
    \E x \in FiniteInputs :
        \/ Unflatten(x)
        \/ EvalF(x)
        \/ EvalGradF(x)
        \/ EvalG(x)
        \/ EvalJacG(x)

SpecEval == Init /\ [][NextEval]_vars

\* ipopt(): the setup, the solver calling the closures, the solver returning.
NextSolver ==
    \/ Ipopt
    \/ Unroll
    \/ \E x \in SolverInputs :
        \/ Unflatten(x)
        \/ CbEvalF(x)
        \/ CbEvalGradF(x)
        \/ CbEvalG(x)
        \/ CbEvalJacG(x)
        \/ SolveReturns(x)

SpecSolver == Init /\ [][NextSolver]_vars

\* The Jacobian of g against its finite differences, on longer trajectories.
NextJac ==
    \/ GetJacGSparsityIndices
    \/ \E x \in {Ramp(get_flat_problem_dim)} :
        \/ EvalJacG(x)
        \/ TestGetDenseJacG(x)
        \/ TestBruteForceJacG(x)

SpecJac == Construct(MaxJacSteps) /\ [][NextJac]_vars

\* ------------------------------------------------------------------ claims
\* flatten(np.zeros(n), 'state') on the store as it stands
flat_state == flatten(current, Zeros(get_flat_problem_dim), "state")
\* the same on the store unflatten(x) leaves
flat_state_of(x) ==
    LET st == unflatten(x)
    IN  flatten([torques |-> st.torques, knot_poses |-> st.knot_poses,
                 knot_vels |-> st.knot_vels, grads |-> grads],
                Zeros(get_flat_problem_dim), "state")

\* C1: the round trip.  Once unflatten(x) has run, flatten('state') returns
\* x; and a vector v that flatten('state') has returned is returned again
\* after unflatten(v).
C1_RoundTrip ==
    /\ ret.op = "unflatten" => flat_state = [err |-> "", out |-> ret.x,
                                             flat_cursor |-> flat_state.flat_cursor]
    /\ (ret.op = "flatten" /\ ret.err = "") =>
            (flat_state_of(ret.value[1]).err = ""
             /\ flat_state_of(ret.value[1]).out = ret.value[1])

\* C1's case: a vector of pairwise different entries decoded into a store of
\* two segments and two degrees of freedom, and encoded again
C1_Witness ==
    /\ ret.op = "unflatten"
    /\ num_shots = 2 /\ world_dofs = 2 /\ tune_starting_point
    /\ ret.x = Ramp(get_flat_problem_dim)
    /\ Len(ret.x) = 12
    /\ flat_state.out = ret.x

\* the claim's closed form: the sum over the segments of the knot's 2 D
\* entries where the knot is a variable and D entries per step of the
\* segment, a segment being min(shooting_length, steps left) steps long
RECURSIVE closed_form_dim(_, _)
closed_form_dim(i, processed) ==
    IF i >= num_shots THEN 0
    ELSE LET segment == Min(shooting_length, steps - processed)
         IN  (IF i > 0 \/ tune_starting_point THEN 2 * world_dofs ELSE 0)
             + world_dofs * segment
             + closed_form_dim(i + 1, processed + segment)

\* C2: get_flat_problem_dim() is the closed form, which is the number of
\* entries flatten writes, also where shooting_length does not divide steps.
C2_DimIsClosedForm ==
    /\ get_flat_problem_dim = closed_form_dim(0, 0)
    /\ (ret.op = "flatten" /\ ret.err = "") =>
            flat_state.flat_cursor = get_flat_problem_dim

\* every step of the trajectory has been simulated
all_snapshots == \A k \in 1..steps : snapshots[k] # None

\* C3: in every configuration with num_shots >= 1 the pattern
\* get_jac_g_sparsity_indices() returns has as many (row, col) pairs as
\* eval_jac_g writes values on a simulated trajectory.
C3_PatternLengthIsValueCount ==
    (num_shots >= 1 /\ all_snapshots) =>
        /\ get_jac_g_sparsity_indices.err = ""
        /\ jac_g_values(snapshots).err = ""
        /\ Len(get_jac_g_sparsity_indices.pairs.row) = Len(jac_g_values(snapshots).values)

\* C4: for D = 1 or 2 and 1, 2 or 5 segments, the matrix _test_get_dense_jac_g
\* returns is the derivative of g with respect to x, entry by entry (the
\* finite differences of g, which are exact: g is affine in x).
C4_DenseIsDerivative ==
    (/\ ret.op = "_test_get_dense_jac_g" /\ ret.err = ""
     /\ world_dofs \in {1, 2} /\ num_shots \in {1, 2, 5}) =>
        /\ test_brute_force_jac_g(ret.x).err = ""
        /\ ret.value = test_brute_force_jac_g(ret.x).value

\* the evaluations the solver asks for
Evaluations == {"eval_f", "eval_grad_f", "eval_g", "eval_jac_g"}

\* the knots of the vector x lie on the trajectory simulated from x
KnotsOnTrajectory(x) == Divisible /\ x = OnTrajectory(x)

\* the entries of g that belong to the knots i > 0 start here
g_lead == IF enforce_loop \/ enforce_final_state # None THEN 2 * world_dofs ELSE 0

\* C5 as stated: with enforce_loop and every knot on the simulated
\* trajectory, every entry of eval_g(x) is zero, the loop block included.
C5_AllOfGIsZero ==
    (ret.op = "eval_g" /\ ret.err = "" /\ enforce_loop /\ KnotsOnTrajectory(ret.x)) =>
        ret.value[1] = Zeros(get_constraint_dim)

\* C5: with enforce_loop and every knot on the simulated trajectory, the
\* entries of eval_g(x) that belong to the knots i > 0 are zero, and the
\* leading block is the terminal state minus knot 0.
C5_KnotGapsVanish ==
    (ret.op = "eval_g" /\ ret.err = "" /\ enforce_loop /\ KnotsOnTrajectory(ret.x)) =>
        /\ Len(ret.value[1]) = get_constraint_dim
        /\ \A k \in (g_lead + 1)..Len(ret.value[1]) : ret.value[1][k] = 0
        /\ SubSeq(ret.value[1], 1, g_lead)
                = VecSub(last_terminal_pos, At(knot_poses, 0))
                  \o VecSub(last_terminal_vel, At(knot_vels, 0))

\* C5's case: two segments closed into a loop, the second knot moved onto
\* the trajectory, and the trajectory does not return to its start
C5_Witness ==
    /\ ret.op = "eval_g" /\ ret.err = "" /\ enforce_loop
    /\ num_shots >= 2 /\ KnotsOnTrajectory(ret.x)
    /\ ret.x # Ramp(get_flat_problem_dim)
    /\ At(last_preknot_poses, 1) = At(knot_poses, 1)
    /\ last_terminal_pos # At(knot_poses, 0)

\* C6: in every rollout, the control of every step is zero at every
\* disabled actuator, whatever the store holds there.
C6_DisabledControlIsZero ==
    \A t \in 1..Len(controls) : \A j \in 1..Len(controls[t]) :
        (j <= Len(mask) /\ mask[j] = 0) => controls[t][j] = 0

\* C7: the pattern get_jac_g_sparsity_indices() returns stays the one
\* ipopt() handed to the solver, pair by pair, whatever has been decoded,
\* simulated or evaluated since.
C7_PatternIsFixed ==
    jac_g_sparsity_indices # None =>
        get_jac_g_sparsity_indices = [err |-> "", pairs |-> jac_g_sparsity_indices[1]]

\* C7's case: the solver has the pattern and has since had the Jacobian
\* evaluated at a vector other than the one ipopt() started from
C7_Witness ==
    /\ jac_g_sparsity_indices # None
    /\ Len(jac_g_sparsity_indices[1].row) > 0
    /\ ret.op = "eval_jac_g" /\ ret.via = "callback" /\ ret.caught = ""
    /\ ret.x = Ramp(get_flat_problem_dim)
    /\ all_snapshots /\ num_shots >= 2

\* C8: an evaluation of a vector with a NaN ends with an error its caller
\* sees, and the solver that asked through a callback does not carry on.
C8_NaNIsFatal ==
    (ret.op \in Evaluations /\ HasNaN(ret.x)) =>
        (ret.err = "AssertionError" /\ ipopt_pc # "solve")

\* C9: no error leaves a callback; the error a callback caught is logged and
\* the callback returned no value.
C9_CallbackErrorsAreCaught ==
    /\ ret.via = "callback" => ret.err = ""
    /\ ((ret.via = "callback" \/ ret.op = "ipopt") /\ ret.caught # "") =>
            /\ ret.value = None
            /\ Len(log) >= 2 /\ log[Len(log)] = ret.caught
            /\ ipopt_pc = "solve"

\* C9's case: the solver asked for f at a vector with a NaN, the failed
\* assertion was caught and logged, and the solver is still running
C9_Witness ==
    /\ ret.op = "eval_f" /\ ret.via = "callback" /\ HasNaN(ret.x)
    /\ ret.caught = "AssertionError" /\ ret.err = "" /\ ret.value = None
    /\ log = <<"f(x) was fed NaNs!", "ERROR when IPOPT was evaluating our f(x)!",
               "AssertionError">>
    /\ ipopt_pc = "solve"

\* the caches as a rollout of the store as it stands leaves them
rolled_out == unroll(current)

gradient_of_rollout ==
    flatten([torques |-> torques, knot_poses |-> knot_poses, knot_vels |-> knot_vels,
             grads |-> backward(NoGrads)], Zeros(get_flat_problem_dim), "grad")

\* C11: the gradient eval_grad_f returns for x holds the contribution of the
\* current rollout only, for every decision variable (knot 0's position and
\* velocity included when the start is tuned), however many gradient
\* evaluations ran before.
C11_GradientIsOfCurrentRollout ==
    (ret.op = "eval_grad_f" /\ ret.err = "") =>
        /\ gradient_of_rollout.err = ""
        /\ ret.value[1] = gradient_of_rollout.out

\* the 2x2 block product [[pp, pv], [vp, vv]] * [[posnext_pos, posnext_vel],
\* [velnext_pos, velnext_vel]], every block from the accumulators acc held
\* before the iteration
block_product(acc, snapshot) ==
    [posend_posnext |-> MatAdd(MatMul(acc.posend_posnext, posnext_pos(snapshot)),
                               MatMul(acc.posend_velnext, velnext_pos(snapshot))),
     posend_velnext |-> MatAdd(MatMul(acc.posend_posnext, posnext_vel(snapshot)),
                               MatMul(acc.posend_velnext, velnext_vel(snapshot))),
     velend_posnext |-> MatAdd(MatMul(acc.velend_posnext, posnext_pos(snapshot)),
                               MatMul(acc.velend_velnext, velnext_pos(snapshot))),
     velend_velnext |-> MatAdd(MatMul(acc.velend_posnext, posnext_vel(snapshot)),
                               MatMul(acc.velend_velnext, velnext_vel(snapshot)))]

\* the product of the local matrices of the steps i down to start_index
RECURSIVE ordered_product(_, _, _, _)
ordered_product(snaps, i, start_index, acc) ==
    IF i < start_index THEN acc
    ELSE ordered_product(snaps, i - 1, start_index, block_product(acc, PyAt(snaps, i)))

\* the accumulators eval_jac_g holds when it has exhausted segment k
segment_accumulators(k) ==
    jac_backward(snapshots, (k + 1) * shooting_length - 1, k * shooting_length,
                 [values |-> <<>>, acc |-> jac_acc_init, err |-> ""]).acc

knot_is_variable(i) == i > 0 \/ tune_starting_point

\* the entries of a phase-phase block, of a step's two torque blocks and of
\* a negative identity
phase_phase_size == (2 * world_dofs) * (2 * world_dofs)
torque_step_size == 2 * world_dofs * world_dofs
negative_identity_size == 2 * world_dofs

\* the entries of the constraint block fed by segment k when its
\* phase-phase block is there exactly if knot k is a decision variable:
\* as values, and as index pairs
claimed_value_block(k) ==
    shooting_length * torque_step_size
        + (IF knot_is_variable(k) THEN phase_phase_size ELSE 0)
claimed_pattern_block(k) ==
    Len(torque_jac_locations(0,
            IF knot_is_variable(k)
            THEN At(get_knot_x_offsets, k)[1] + 2 * world_dofs ELSE 0)) * torque_step_size
        + (IF knot_is_variable(k) THEN phase_phase_size ELSE 0)

RECURSIVE claimed_knot_entries(_, _)
claimed_knot_entries(i, pattern) ==
    IF i >= num_shots THEN 0
    ELSE (IF pattern THEN claimed_pattern_block(i - 1) ELSE claimed_value_block(i - 1))
         + negative_identity_size + claimed_knot_entries(i + 1, pattern)

claimed_entries(pattern) ==
    (IF enforce_loop \/ enforce_final_state # None
     THEN (IF pattern THEN claimed_pattern_block(num_shots - 1)
           ELSE claimed_value_block(num_shots - 1))
          + (IF tune_starting_point /\ enforce_loop THEN negative_identity_size ELSE 0)
     ELSE 0)
    + claimed_knot_entries(1, pattern)

\* C13: eval_jac_g and get_jac_g_sparsity_indices emit a phase-phase block
\* for a segment only if the segment's starting knot is a decision variable:
\* what each emits is the torque blocks and negative identities plus one
\* phase-phase block per segment with a tunable start, the last segment of
\* the loop / final-state block included.
C13_PhasePhaseOnlyForVariableKnot ==
    (num_shots >= 1 /\ all_snapshots) =>
        /\ jac_g_values(snapshots).err = "" =>
                Len(jac_g_values(snapshots).values) = claimed_entries(FALSE)
        /\ get_jac_g_sparsity_indices.err = "" =>
                Len(get_jac_g_sparsity_indices.pairs.row) = claimed_entries(TRUE)

\* C14: the values of eval_jac_g and the pairs of get_jac_g_sparsity_indices
\* are aligned position by position: there are as many values as pairs, and
\* the k-th value is the derivative of the constraint entry row[k] with
\* respect to x[col[k]] (the finite difference of g, exact as g is affine).
C14_ValuesAlignedWithPattern ==
    LET aligned(values, sp, derivative) ==
            /\ sp.err = ""
            /\ derivative.err = ""
            /\ Len(values) = Len(sp.pairs.row)
            /\ \A k \in 1..Len(values) :
                    values[k] = derivative.value[1][sp.pairs.row[k] + 1][sp.pairs.col[k] + 1]
    IN  (ret.op = "eval_jac_g" /\ ret.err = "") =>
            aligned(ret.value[1], get_jac_g_sparsity_indices,
                    test_brute_force_jac_g(ret.x))

\* x[offset : offset + 2 D] split into its position and its velocity half
PhaseAt(x, offset) ==
    [pos |-> PySlice(x, offset, offset + world_dofs),
     vel |-> PySlice(x, offset + world_dofs, offset + 2 * world_dofs)]

\* C15: get_knot_x_offsets()[i] is where flatten and unflatten place knot i
\* in the flat vector (None exactly for knot 0 without start tuning), and
\* get_knot_g_offsets()[i] is where eval_g writes knot i's gap (None exactly
\* for knot 0).
C15_OffsetsAreTheLayout ==
    /\ Len(get_knot_x_offsets) = num_shots
    /\ Len(get_knot_g_offsets) = num_shots
    /\ \A i \in 0..(num_shots - 1) :
        /\ At(get_knot_x_offsets, i) = None <=> (i = 0 /\ ~tune_starting_point)
        /\ At(get_knot_g_offsets, i) = None <=> i = 0
        /\ (At(get_knot_x_offsets, i) # None /\ ret.op = "unflatten") =>
                PhaseAt(ret.x, At(get_knot_x_offsets, i)[1])
                    = [pos |-> At(knot_poses, i), vel |-> At(knot_vels, i)]
        /\ (At(get_knot_x_offsets, i) # None /\ flat_state.err = "") =>
                PhaseAt(flat_state.out, At(get_knot_x_offsets, i)[1])
                    = [pos |-> At(knot_poses, i), vel |-> At(knot_vels, i)]
        /\ (i > 0 /\ ret.op = "eval_g" /\ ret.err = "") =>
                PhaseAt(ret.value[1], At(get_knot_g_offsets, i)[1])
                    = [pos |-> VecSub(At(last_preknot_poses, i), At(knot_poses, i)),
                       vel |-> VecSub(At(last_preknot_vels, i), At(knot_vels, i))]

\* C15's case: three segments of two degrees of freedom with a tuned start
\* and a loop, decoded from a vector of pairwise different entries, and g
\* evaluated, the gaps of the two knots being different
C15_Witness ==
    /\ ret.op = "eval_g" /\ ret.err = ""
    /\ num_shots = 3 /\ world_dofs = 2 /\ tune_starting_point /\ enforce_loop
    /\ ret.x = Ramp(get_flat_problem_dim)
    /\ flat_state.out = ret.x
    /\ get_knot_x_offsets = <<Some(0), Some(6), Some(12)>>
    /\ get_knot_g_offsets = <<None, Some(4), Some(8)>>
    /\ At(knot_poses, 2) = <<13, 14>>
    /\ PhaseAt(ret.value[1], 4) # PhaseAt(ret.value[1], 8)

\* C16: a rollout passes through all the steps and ends normally, also where
\* shooting_length does not divide steps: at every segment boundary t the
\* knot index floor(t / shooting_length) is smaller than num_shots, so the
\* knot and pre-knot slots of that index exist.
C16_RolloutReachesDone ==
    /\ \A t \in 1..(steps - 1) :
            t % shooting_length = 0 =>
                /\ t \div shooting_length < num_shots
                /\ t \div shooting_length < Len(knot_poses)
                /\ t \div shooting_length < Len(last_preknot_poses)
    /\ ret.op = "unroll" => (ret.err = "" /\ all_snapshots /\ Len(controls) = steps)

\* the state reached from (pos, vel) by simulating the steps i .. stop - 1
\* with the controls of the store st
RECURSIVE simulate(_, _, _, _, _)
simulate(st, pos, vel, i, stop) ==
    IF i >= stop THEN [pos |-> pos, vel |-> vel]
    ELSE LET moved(nxt) == simulate(st, nxt.next_pos, nxt.next_vel, i + 1, stop)
         IN  moved(dart_layer(pos, vel, masked_torque(st, i).v))

\* the state at the end of segment k simulated from knot k (the last
\* segment runs to the last step)
segment_end(st, k) ==
    simulate(st, At(st.knot_poses, k), At(st.knot_vels, k), k * shooting_length,
             IF k = num_shots - 1 THEN steps ELSE (k + 1) * shooting_length)

\* end - reference, position entries before velocity entries
gap_block(end, ref_pos, ref_vel) == VecSub(end.pos, ref_pos) \o VecSub(end.vel, ref_vel)

RECURSIVE knot_gaps(_, _)
knot_gaps(st, i) ==
    IF i >= num_shots THEN <<>>
    ELSE gap_block(segment_end(st, i - 1), At(st.knot_poses, i), At(st.knot_vels, i))
         \o knot_gaps(st, i + 1)

\* g as the claim composes it for the store st
composed_g(st) ==
    (IF enforce_loop
     THEN gap_block(segment_end(st, num_shots - 1), At(st.knot_poses, 0), At(st.knot_vels, 0))
     ELSE IF enforce_final_state # None
     THEN gap_block(segment_end(st, num_shots - 1),
                    SubSeq(enforce_final_state, 1, world_dofs),
                    SubSeq(enforce_final_state, world_dofs + 1, 2 * world_dofs))
     ELSE <<>>)
    \o knot_gaps(st, 1)

\* C17: what eval_g(x) returns is, first (with a loop or a fixed final
\* state) the terminal state minus knot 0 or minus the fixed target, then for
\* every knot i = 1 .. num_shots - 1 in order the state reached by simulating
\* segment i - 1 from knot i - 1 minus knot i, positions before velocities:
\* get_constraint_dim() entries in all.
C17_GIsLeadThenKnotGaps ==
    (ret.op = "eval_g" /\ ret.err = "") =>
        /\ ret.value[1] = composed_g(unflatten(ret.x))
        /\ Len(ret.value[1]) = get_constraint_dim

\* C17's case: three segments of two degrees of freedom and a fixed final
\* state, g evaluated at a vector of pairwise different entries
C17_Witness ==
    /\ ret.op = "eval_g" /\ ret.err = ""
    /\ num_shots = 3 /\ world_dofs = 2 /\ enforce_final_state # None
    /\ ret.x = Ramp(get_flat_problem_dim)
    /\ Len(ret.value[1]) = 12
    /\ SubSeq(ret.value[1], 1, 4)
            = VecSub(last_terminal_pos, <<3, 3>>) \o VecSub(last_terminal_vel, <<3, 3>>)
    /\ SubSeq(ret.value[1], 5, 8) # SubSeq(ret.value[1], 9, 12)
    /\ last_terminal_pos # At(knot_poses, 0)

\* C18: the pattern get_jac_g_sparsity_indices() returns holds no (row, col)
\* pair twice, so that a scatter of the values by assignment keeps every
\* value; one segment with enforce_loop and tune_starting_point included.
C18_PatternHasNoDuplicate ==
    LET no_duplicate(pairs) ==
            \A j, k \in 1..Len(pairs.row) :
                (pairs.row[j] = pairs.row[k] /\ pairs.col[j] = pairs.col[k]) => j = k
    IN  get_jac_g_sparsity_indices.err = "" =>
            no_duplicate(get_jac_g_sparsity_indices.pairs)

\* C19: every value eval_jac_g emits for a column of x that holds the torque
\* of a disabled actuator is zero, at every step (the columns of the controls
\* are those unflatten reads them from).
C19_DisabledTorqueColumnsAreZero ==
    LET zero_at(values, sp, layout) ==
            \A k \in 1..Len(values) : \A t \in 1..Len(layout) :
                \A j \in 1..Len(layout[t]) :
                    (mask[j] = 0 /\ sp.pairs.col[k] = layout[t][j] - 1) => values[k] = 0
    IN  (ret.op = "eval_jac_g" /\ ret.err = "") =>
            zero_at(ret.value[1], get_jac_g_sparsity_indices,
                    unflatten(Ramp(get_flat_problem_dim)).torques)

\* C20: after construction num_shots is floor(steps / shooting_length) for
\* the stored shooting_length, hence at least 1; the knot lists have
\* num_shots entries; and the two dimensions are not negative.
C20_NumShotsIsPositive ==
    /\ num_shots = steps \div shooting_length
    /\ num_shots >= 1
    /\ Len(knot_poses) = num_shots
    /\ Len(knot_vels) = num_shots
    /\ get_flat_problem_dim >= 0
    /\ get_constraint_dim >= 0

====
